---------------------------- MODULE Spec2Model ----------------------------
(***************************************************************************)
(* Model of src/app.py: the BeardsleyModel calculators and the             *)
(* optimize_volume simulator loop of the WNS Hypertrophy Architect.        *)
(*                                                                         *)
(* Numbers.  Python floats are modelled as exact rationals <<n, d>> with   *)
(* d > 0, kept in lowest terms.  Every multiplier of the program is a      *)
(* short decimal, so recovery hours are exact.  np.log is tabulated in     *)
(* millionths (SchoenfeldMicro).  The one place where binary64 rounding    *)
(* changes a branch of the program is recorded by RoundsAboveTie.          *)
(***************************************************************************)
EXTENDS Integers, Sequences, FiniteSets, TLC

VARIABLES
    \* arguments of optimize_volume
    freq, level, short_on_time_global, priority_strength_muscles,
    draft,              \* value of the program argument at the time of the call
    program,            \* the caller's program object: day index -> list of exercise dicts
    \* locals of optimize_volume
    pc, day, daily_log, pending, muscle, total_sets, req_recovery,
    optimized_program, report_log,
    \* bookkeeping of the recovery check
    entry_total, decrements, pass, first_result,
    \* one call of a BeardsleyModel static method
    call, ret

argvars  == <<freq, level, short_on_time_global, priority_strength_muscles, draft>>
locvars  == <<pc, day, daily_log, pending, muscle, total_sets, req_recovery>>
outvars  == <<optimized_program, report_log>>
bookvars == <<entry_total, decrements, pass, first_result>>
fnvars   == <<call, ret>>
vars     == <<argvars, program, locvars, outvars, bookvars, fnvars>>

---------------------------------------------------------------------------
\* Bounds of the model.
MaxExercises == 2       \* exercises in one day of the drafted program
MaxSets      == 3       \* Sets of a drafted exercise (the generator writes 3)
MaxFreq      == 4       \* largest training frequency tried
MaxRawSets   == 4       \* raw_sets / sets handed to a calculator
MaxReps      == 7       \* reps handed to calculate_effective_sets
MaxRir       == 6       \* rir handed to a calculator
MaxGrossHalves == 6     \* gross stimulus inputs 0, 0.5, ..., MaxGrossHalves / 2
MaxRecSteps  == 13      \* recovery_hours inputs 0, 14, ..., 14 * MaxRecSteps

---------------------------------------------------------------------------
\* Exact rational arithmetic.  A rational is a pair <<numerator, denominator>>
\* in lowest terms with a positive denominator.  Each operation is a function
\* applied to its operands, so that an operand is evaluated once.
Rat == Int \X Int

Abs(x) ==
    LET abs[n \in Int] == IF n < 0 THEN -n ELSE n
    IN  abs[x]

GCD(a, b) ==
    LET gcd[m \in Nat, n \in Nat] == IF n = 0 THEN m ELSE gcd[n, m % n]
    IN  gcd[a, b]

Norm(n, d) ==
    LET norm[x \in Int, y \in Int] ==
            LET s == IF y < 0 THEN -1 ELSE 1
                g == GCD(Abs(x), Abs(y))
            IN  <<(s * x) \div g, (s * y) \div g>>
    IN  norm[n, d]

Q(n)       == <<n, 1>>
RNeg(a)    ==
    LET neg[x \in Rat] == <<-x[1], x[2]>>
    IN  neg[a]
RAdd(a, b) ==
    LET add[x \in Rat, y \in Rat] ==
            LET g == GCD(x[2], y[2])
            IN  Norm(x[1] * (y[2] \div g) + y[1] * (x[2] \div g), x[2] * (y[2] \div g))
    IN  add[a, b]
RSub(a, b) == RAdd(a, RNeg(b))
RMul(a, b) ==
    LET mul[x \in Rat, y \in Rat] ==
            LET g1 == GCD(Abs(x[1]), y[2])
                g2 == GCD(Abs(y[1]), x[2])
            IN  Norm((x[1] \div g1) * (y[1] \div g2), (x[2] \div g2) * (y[2] \div g1))
    IN  mul[a, b]
RInv(a)    ==
    LET inv[x \in Rat] == Norm(x[2], x[1])
    IN  inv[a]
RDiv(a, b) == RMul(a, RInv(b))
RLt(a, b)  ==
    LET lt[x \in Rat, y \in Rat] == x[1] * y[2] < y[1] * x[2]
    IN  lt[a, b]
RLe(a, b)  == ~RLt(b, a)
RMax(a, b) ==
    LET max[x \in Rat, y \in Rat] == IF RLt(x, y) THEN y ELSE x
    IN  max[a, b]
RMin(a, b) ==
    LET min[x \in Rat, y \in Rat] == IF RLt(y, x) THEN y ELSE x
    IN  min[a, b]

\* int(x): truncation toward zero.
Trunc(a) ==
    LET trunc[x \in Rat] == IF x[1] >= 0 THEN x[1] \div x[2] ELSE -((-x[1]) \div x[2])
    IN  trunc[a]

\* round(x, 2), as a number of hundredths.
Round2(a) ==
    LET round[y \in Rat] == (y[1] \div y[2]) + (IF 2 * (y[1] % y[2]) >= y[2] THEN 1 ELSE 0)
    IN  round[RMul(a, Q(100))]

\* Outcome of a call: a returned value or a raised exception.
Returned(v) == [ok |-> TRUE, val |-> v]
Raised(e)   == [ok |-> FALSE, exc |-> e]

---------------------------------------------------------------------------
\* 1. SCIENTIFIC MODELS (class BeardsleyModel)

Heavy    == "Heavy (1-5)"
Moderate == "Moderate (6-15)"
Light    == "Light (16+)"

\* The stimulating reps without max(0, ...).
stimulating_reps_unclamped(reps, rir) ==
    IF reps < 5 - rir THEN reps ELSE 5 - rir

\* stimulating_reps = min(reps, max(0, 5 - rir))
stimulating_reps(reps, rir) ==
    LET capped == IF 5 - rir > 0 THEN 5 - rir ELSE 0
    IN  IF reps < capped THEN reps ELSE capped

calculate_effective_sets(raw_sets, reps, rir) ==
    RMul(Q(raw_sets), Norm(stimulating_reps(reps, rir), 5))

\* (0.55 * ln(k / 5)) + 1.0 in millionths, for k = 1 .. 80 fifths of an
\* effective set (0.2 .. 16.0).
SchoenfeldMicro ==
    << 114809, 496040, 719046, 877271, 1000000, 1100277, 1185060, 1258502,
       1323283, 1381231, 1433652, 1481508, 1525531, 1566291, 1604237, 1639733,
       1673076, 1704514, 1734251, 1762462, 1789296, 1814882, 1839331, 1862739,
       1885191, 1906762, 1927519, 1947522, 1966822, 1985468, 2003502, 2020964,
       2037888, 2054307, 2070251, 2085745, 2100814, 2115482, 2129768, 2143693,
       2157274, 2170527, 2183469, 2196113, 2208474, 2220562, 2232390, 2243970,
       2255310, 2266422, 2277313, 2287993, 2298470, 2308750, 2318842, 2328753,
       2338487, 2348053, 2357455, 2366699, 2375790, 2384733, 2393533, 2402195,
       2410722, 2419119, 2427390, 2435538, 2443568, 2451482, 2459283, 2466976,
       2474562, 2482045, 2489428, 2496712, 2503902, 2510999, 2518005, 2524924 >>

\* effective_sets is a rational whose denominator divides 5.
calculate_gross_stimulus(effective_sets) ==
    IF effective_sets[1] <= 0
    THEN Q(0)
    ELSE LET eff == RMax(<<1, 10>>, effective_sets)
             k   == (eff[1] * 5) \div eff[2]
         IN  Norm(SchoenfeldMicro[k], 1000000)

base_hours_per_set == 14

load_mult(rep_range_type) ==
    IF rep_range_type = Heavy THEN <<3, 5>>
    ELSE IF rep_range_type = Moderate THEN Q(1)
    ELSE <<3, 2>>

rir_mult(rir) == IF rir <= 1 THEN Q(1) ELSE <<4, 5>>

profile_mult(muscle_profile) ==
    IF muscle_profile = "Lengthened" THEN <<5, 4>> ELSE Q(1)

\* binary64: 14.0 * 1.0 * 0.8 * 1.25 evaluates to 14.000000000000002, and
\* 1, 2 and 4 sets of it to 14.000000000000002, 28.000000000000004 and
\* 56.00000000000001, which compare above 168.0 / 12, 168.0 / 6 and
\* 168.0 / 3.  For sets <= 40 and frequencies <= 14 these are the only
\* ties of the exact product with 168 / freq that the double breaks.
RoundsAboveTie(sets, rep_range_type, muscle_profile, rir) ==
    /\ rep_range_type = Moderate
    /\ rir > 1
    /\ muscle_profile = "Lengthened"
    /\ sets \in {1, 2, 4}

\* total_hours, with the tie flag of its double.
calculate_recovery_hours(sets, rep_range_type, muscle_profile, rir) ==
    [q  |-> RMul(RMul(RMul(Q(sets * base_hours_per_set), load_mult(rep_range_type)),
                      rir_mult(rir)), profile_mult(muscle_profile)),
     up |-> RoundsAboveTie(sets, rep_range_type, muscle_profile, rir)]

hours_per_week    == 168
stimulus_duration == 48
atrophy_rate      == <<134, 10000>>

\* The penalty without its scaling.
penalty_unscaled  == <<1, 1>>

\* (deficit / recovery_hours) * 0.5
penalty_scaling   == <<1, 2>>

\* recovery_penalty of calculate_wns; called with cycle_hours < recovery_hours.
recovery_penalty(cycle_hours, recovery_hours) ==
    RMul(RDiv(RSub(recovery_hours, cycle_hours), recovery_hours), penalty_scaling)

\* The return without max(0, ...).
wns_unfloored(weekly) == weekly

\* net_stimulus_per_workout * workouts_per_week, floored at 0.
wns_floor(weekly) == RMax(Q(0), weekly)

calculate_wns(workouts_per_week, gross_stimulus_per_workout, recovery_hours) ==
    IF workouts_per_week = 0
    THEN Raised("ZeroDivisionError")
    ELSE LET cycle_hours == Norm(hours_per_week, workouts_per_week)
             penalised   == RLt(cycle_hours, recovery_hours)
         IN  IF penalised /\ recovery_hours[1] = 0
             THEN Raised("ZeroDivisionError")
             ELSE LET penalty == IF penalised
                                 THEN recovery_penalty(cycle_hours, recovery_hours)
                                 ELSE Q(0)
                      time_in_atrophy == RMax(Q(0), RSub(cycle_hours, Q(stimulus_duration)))
                      atrophy_loss    == RMul(time_in_atrophy, atrophy_rate)
                      net_stimulus_per_workout ==
                          RSub(RMul(gross_stimulus_per_workout, RSub(Q(1), penalty)),
                               atrophy_loss)
                  IN  Returned(wns_floor(RMul(net_stimulus_per_workout,
                                              Q(workouts_per_week))))

---------------------------------------------------------------------------
\* 2. EXERCISE LIBRARY & DATA (the fields optimize_volume reads)

EXERCISE_DB ==
    [Chest      |-> [profile |-> "Lengthened", damaged |-> TRUE],
     Back       |-> [profile |-> "Shortened",  damaged |-> FALSE],
     Quads      |-> [profile |-> "Lengthened", damaged |-> TRUE],
     Hamstrings |-> [profile |-> "Lengthened", damaged |-> TRUE],
     Shoulders  |-> [profile |-> "Shortened",  damaged |-> FALSE],
     Triceps    |-> [profile |-> "Mid",        damaged |-> FALSE],
     Biceps     |-> [profile |-> "Lengthened", damaged |-> FALSE],
     Calves     |-> [profile |-> "Shortened",  damaged |-> FALSE]]

---------------------------------------------------------------------------
\* 3. APP LOGIC: optimize_volume

NoMuscle == "none"

\* The entry dict written by generate_program_structure; Exercise is the
\* position of the exercise in its day and stands for its name.
Entry(m, i, s, t) == [Muscle |-> m, Exercise |-> i, Sets |-> s, Type |-> t]

\* The dict after ex[k] = v for every key k of updates.
assigned(ex, updates) == updates @@ ex

\* cycle_hours = 168.0 / freq
cycle_hours == Norm(hours_per_week, freq)

\* The halving without its floor of 1.
halved_unfloored(sets) == sets \div 2

\* ex["Sets"] = max(1, int(ex["Sets"] / 2))
halved(sets) == IF sets \div 2 > 1 THEN sets \div 2 ELSE 1

time_constraint(exercises) ==
    [i \in 1..Len(exercises) |->
        [exercises[i] EXCEPT !.Sets = halved(exercises[i].Sets)]]

is_strength(ex) ==
    ex.Muscle \in priority_strength_muscles /\ ex.Type = "Compound"

strength_sets == 5

strength_priority(ex) ==
    IF is_strength(ex)
    THEN assigned(ex, [Reps |-> "1-3", RIR |-> 2, Load |-> Heavy, Sets |-> strength_sets])
    ELSE IF short_on_time_global
         THEN assigned(ex, [Reps |-> "10-12", RIR |-> 1, Load |-> Moderate])
         ELSE assigned(ex, [Reps |-> "6-10",
                            RIR |-> IF level # "Beginner" THEN 0 ELSE 2,
                            Load |-> Moderate])

RECURSIVE strength_log(_, _)
strength_log(exercises, i) ==
    IF i > Len(exercises) THEN <<>>
    ELSE (IF is_strength(exercises[i])
          THEN <<[msg |-> "Strength Priority", ex |-> exercises[i].Exercise]>>
          ELSE <<>>) \o strength_log(exercises, i + 1)

\* muscle_exercises, as the positions of the muscle's dicts in exercises.
RECURSIVE positions(_, _, _)
positions(exercises, m, i) ==
    IF i > Len(exercises) THEN <<>>
    ELSE (IF exercises[i].Muscle = m THEN <<i>> ELSE <<>>)
         \o positions(exercises, m, i + 1)

muscle_exercises(exercises, m) == positions(exercises, m, 1)

muscle_groups(exercises) == {exercises[i].Muscle : i \in 1..Len(exercises)}

RECURSIVE sum_sets(_, _)
sum_sets(exercises, idx) ==
    IF idx = <<>> THEN 0
    ELSE exercises[Head(idx)].Sets + sum_sets(exercises, Tail(idx))

first_of(exercises, m) == exercises[Head(muscle_exercises(exercises, m))]
last_pos(exercises, m) ==
    LET idx == muscle_exercises(exercises, m) IN idx[Len(idx)]

\* req_recovery *= 1.2
easily_damaged(rec) == [q |-> RMul(rec.q, <<6, 5>>), up |-> FALSE]

\* lines 335-341: the required recovery of the muscle for total sets.
initial_recovery(exercises, m, total) ==
    LET base == calculate_recovery_hours(total, first_of(exercises, m).Load,
                                         EXERCISE_DB[m].profile,
                                         first_of(exercises, m).RIR)
    IN  IF EXERCISE_DB[m].damaged THEN easily_damaged(base) ELSE base

\* lines 357-358: the recalculation inside the loop.
recalc_recovery(exercises, m, total) ==
    LET base == calculate_recovery_hours(total, first_of(exercises, m).Load,
                                         EXERCISE_DB[m].profile,
                                         first_of(exercises, m).RIR)
    IN  IF EXERCISE_DB[m].damaged THEN easily_damaged(base) ELSE base

\* req_recovery > cycle_hours
exceeds_cycle(rec) ==
    RLt(cycle_hours, rec.q) \/ (rec.q = cycle_hours /\ rec.up)

\* The loop as a single if: no turn after the first reduction.
loop_continues_once(rec, total) ==
    exceeds_cycle(rec) /\ total > 1 /\ decrements = 0

\* while req_recovery > cycle_hours and total_sets > 1
loop_continues(rec, total) == exceeds_cycle(rec) /\ total > 1

\* if target_ex["Sets"] > 1
can_reduce(target_ex) == target_ex.Sets > 1

\* The turn without the break of line 354.
turn_pc_unbroken(rec, total, target_ex) ==
    IF loop_continues(rec, total) THEN "trim" ELSE "score"

\* lines 346-354: where one turn of the while loop leaves the control: in
\* the loop again after a reduction, or past it when the condition fails
\* or the break is taken.
turn_pc(rec, total, target_ex) ==
    IF loop_continues(rec, total)
    THEN (IF can_reduce(target_ex) THEN "trim" ELSE "score")
    ELSE "score"

reduced_entry(rec, target_ex) ==
    [msg |-> "Recovery Limit Exceeded", rec |-> Trunc(rec.q),
     cyc |-> Trunc(cycle_hours), ex |-> target_ex.Exercise]

\* lines 361-367: WNS of the muscle, tagged to its first exercise.
tagged(exercises, m, total, rec) ==
    LET first      == Head(muscle_exercises(exercises, m))
        rir_scheme == exercises[first].RIR
        eff_sets   == calculate_effective_sets(total, 10, rir_scheme)
        gross_stim == calculate_gross_stimulus(eff_sets)
        wns        == calculate_wns(freq, gross_stim, rec.q).val
    IN  [exercises EXCEPT ![first] =
            assigned(@, [WNS_Score |-> Round2(wns), Recovery_Hours |-> Trunc(rec.q)])]

---------------------------------------------------------------------------
\* The drafted programs handed to optimize_volume.

DraftMuscles == {"Chest", "Biceps"}
Types        == {"Compound", "Isolation"}
Levels       == {"Beginner", "Intermediate"}   \* "Advanced" reads as "Intermediate" here
Freqs        == 0..MaxFreq                     \* 0 is the caller error of line 287
StrengthChoices == {{}} \cup {{m} : m \in DraftMuscles}   \* multiselect, max_selections=1

DraftSpecs == DraftMuscles \X Types

\* Shape of a day written by generate_program_structure (lines 231-276):
\* the exercises of a muscle are adjacent and only the first of them can
\* be a compound.
Grouped(f, n) ==
    /\ \A i \in 2..n : f[i][2] = "Compound" => f[i - 1][1] # f[i][1]
    /\ \A i, j, k \in 1..n : (i < j /\ j < k /\ f[i][1] = f[k][1]) => f[j][1] = f[i][1]

\* One day's exercise list; the generator writes the same Sets into every
\* entry ("Sets": 3 at line 273).
DraftLists ==
    UNION {{[i \in 1..n |-> Entry(f[i][1], i, s, f[i][2])] :
                f \in {g \in [1..n -> DraftSpecs] : Grouped(g, n)}, s \in 1..MaxSets} :
           n \in 0..MaxExercises}

\* The generator gives each day its own dicts; the days of a full-body
\* split carry the same exercises.  A second day is modelled for the drafts
\* of at most one exercise.
Programs ==
    {<<l>> : l \in DraftLists} \cup
    {<<l, l>> : l \in {x \in DraftLists : Len(x) <= 1}}

NoRecovery == [q |-> Q(0), up |-> FALSE]
NoCall     == [fn |-> "none"]
NoRet      == [ok |-> FALSE, exc |-> "none"]

\* Nothing has been called yet.
Init ==
    /\ freq = 1
    /\ level = "Beginner"
    /\ short_on_time_global = FALSE
    /\ priority_strength_muscles = {}
    /\ draft = <<>>
    /\ program = <<>>
    /\ pc = "idle"
    /\ day = 0
    /\ daily_log = <<>>
    /\ pending = {}
    /\ muscle = NoMuscle
    /\ total_sets = 0
    /\ req_recovery = NoRecovery
    /\ optimized_program = {}
    /\ report_log = <<>>
    /\ entry_total = 0
    /\ decrements = 0
    /\ pass = 1
    /\ first_result = <<>>
    /\ call = NoCall
    /\ ret = NoRet

\* The dict returned by optimize_volume: its values are the caller's lists.
returned_program == [d \in optimized_program |-> program[d]]

\* The call optimize_volume(program, freq, level, short_on_time_global,
\* priority_strength_muscles) and its lines 284-290: cycle_hours = 168.0 /
\* freq, then the first day.
Enter ==
    /\ pc = "idle"
    /\ call = NoCall
    /\ \E f \in Freqs, l \in Levels, s \in BOOLEAN,
          p \in StrengthChoices, d \in Programs :
         /\ freq' = f
         /\ level' = l
         /\ short_on_time_global' = s
         /\ priority_strength_muscles' = p
         /\ draft' = d
         /\ program' = d
         /\ IF f = 0
            THEN /\ pc' = "raised"
                 /\ UNCHANGED <<day, daily_log>>
            ELSE /\ pc' = "time_constraint"
                 /\ day' = 1
                 /\ daily_log' = <<>>
    /\ UNCHANGED <<pending, muscle, total_sets, req_recovery,
                   outvars, bookvars, fnvars>>

\* lines 292-296: 1. Apply Time Constraint.
TimeConstraint ==
    /\ pc = "time_constraint"
    /\ IF short_on_time_global
       THEN /\ daily_log' = Append(daily_log, [msg |-> "Short on Time"])
            /\ program' = [program EXCEPT ![day] = time_constraint(program[day])]
       ELSE UNCHANGED <<daily_log, program>>
    /\ pc' = "strength_priority"
    /\ UNCHANGED <<argvars, day, pending, muscle, total_sets, req_recovery,
                   outvars, bookvars, fnvars>>

\* lines 298-319: 2. Apply Strength Priority Overrides, then the session's
\* muscle groups.
StrengthPriority ==
    /\ pc = "strength_priority"
    /\ program' = [program EXCEPT ![day] =
                      [i \in 1..Len(program[day]) |-> strength_priority(program[day][i])]]
    /\ daily_log' = daily_log \o strength_log(program[day], 1)
    /\ pending' = muscle_groups(program[day])
    /\ pc' = "recovery_check"
    /\ UNCHANGED <<argvars, day, muscle, total_sets, req_recovery,
                   outvars, bookvars, fnvars>>

\* lines 321-344: the next muscle of the set, in whatever order the set
\* yields it; its total sets and required recovery.
RecoveryCheck ==
    /\ pc = "recovery_check"
    /\ pending # {}
    /\ \E m \in pending :
         LET total == sum_sets(program[day], muscle_exercises(program[day], m))
             rec   == initial_recovery(program[day], m, total)
         IN  /\ muscle' = m
             /\ total_sets' = total
             /\ req_recovery' = rec
             /\ entry_total' = total
             /\ decrements' = 0
             /\ pc' = IF exceeds_cycle(rec) THEN "trim" ELSE "score"
    /\ UNCHANGED <<argvars, program, day, daily_log, pending, outvars,
                   pass, first_result, fnvars>>

\* lines 346-358: one turn of the while loop.
Trim ==
    /\ pc = "trim"
    /\ LET target == last_pos(program[day], muscle)
           target_ex == program[day][target]
       IN  /\ pc' = turn_pc(req_recovery, total_sets, target_ex)
           /\ IF loop_continues(req_recovery, total_sets) /\ can_reduce(target_ex)
              THEN /\ program' = [program EXCEPT ![day][target].Sets = @ - 1]
                   /\ total_sets' = total_sets - 1
                   /\ daily_log' = Append(daily_log, reduced_entry(req_recovery, target_ex))
                   /\ req_recovery' = recalc_recovery(program[day], muscle, total_sets - 1)
                   /\ decrements' = decrements + 1
              ELSE UNCHANGED <<program, total_sets, daily_log, req_recovery, decrements>>
    /\ UNCHANGED <<argvars, day, pending, muscle, outvars,
                   entry_total, pass, first_result, fnvars>>

\* lines 360-367: Calculate WNS for this muscle.
Score ==
    /\ pc = "score"
    /\ program' = [program EXCEPT ![day] = tagged(@, muscle, total_sets, req_recovery)]
    /\ pending' = pending \ {muscle}
    /\ pc' = "recovery_check"
    /\ UNCHANGED <<argvars, day, daily_log, muscle, total_sets, req_recovery,
                   outvars, bookvars, fnvars>>

\* lines 369-372 and 289-290: close the day, then the next day or return.
EndDay ==
    /\ pc = "recovery_check"
    /\ pending = {}
    /\ optimized_program' = optimized_program \cup {day}
    /\ report_log' = Append(report_log, daily_log)
    /\ IF day < Len(program)
       THEN /\ day' = day + 1
            /\ daily_log' = <<>>
            /\ pc' = IF pass = 1 THEN "time_constraint" ELSE "recovery_check"
            /\ pending' = IF pass = 1 THEN {} ELSE muscle_groups(program[day + 1])
       ELSE /\ pc' = "done"
            /\ UNCHANGED <<day, daily_log, pending>>
    /\ UNCHANGED <<argvars, program, muscle, total_sets, req_recovery,
                   bookvars, fnvars>>

\* The recovery check (lines 317-370) run once more on the program that
\* optimize_volume returned, with the same frequency.
Reinvoke ==
    /\ pc = "done"
    /\ pass = 1
    /\ pass' = 2
    /\ first_result' = program
    /\ day' = 1
    /\ daily_log' = <<>>
    /\ pending' = muscle_groups(program[1])
    /\ pc' = "recovery_check"
    /\ optimized_program' = {}
    /\ report_log' = <<>>
    /\ decrements' = 0
    /\ UNCHANGED <<argvars, program, muscle, total_sets, req_recovery,
                   entry_total, fnvars>>

Next ==
    \/ Enter
    \/ TimeConstraint
    \/ StrengthPriority
    \/ RecoveryCheck
    \/ Trim
    \/ Score
    \/ EndDay

Spec == Init /\ [][Next]_vars

\* The steps of a call that is under way.
Run ==
    \/ TimeConstraint
    \/ StrengthPriority
    \/ RecoveryCheck
    \/ Trim
    \/ Score
    \/ EndDay

\* optimize_volume is sequential code on one thread: once called it keeps
\* taking its next step until it returns.
FairSpec == Init /\ [][Next]_vars /\ WF_vars(Run)

NextTwice == Next \/ Reinvoke

SpecTwice == Init /\ [][NextTwice]_vars

---------------------------------------------------------------------------
\* Calls of the BeardsleyModel static methods on their own.

RawSets    == (-MaxRawSets)..MaxRawSets
FnFreqs    == (-2)..MaxFreq
GrossInputs == {Norm(k, 2) : k \in 0..MaxGrossHalves}
RecInputs   == {Q(base_hours_per_set * k) : k \in 0..MaxRecSteps}
LoadTypes  == {Heavy, Moderate, Light}
Profiles   == {"Lengthened", "Shortened", "Mid"}

CallEffectiveSets ==
    /\ pc = "idle"
    /\ call = NoCall
    /\ \E raw_sets \in 0..MaxRawSets, reps \in 1..MaxReps, rir \in 0..MaxRir :
         /\ call' = [fn |-> "calculate_effective_sets",
                     raw_sets |-> raw_sets, reps |-> reps, rir |-> rir]
         /\ ret' = Returned(calculate_effective_sets(raw_sets, reps, rir))
    /\ UNCHANGED <<argvars, program, locvars, outvars, bookvars>>

CallGrossStimulus ==
    /\ pc = "idle"
    /\ call = NoCall
    /\ \E k \in 0..(5 * MaxRawSets) :
         /\ call' = [fn |-> "calculate_gross_stimulus", effective_sets |-> Norm(k, 5)]
         /\ ret' = Returned(calculate_gross_stimulus(Norm(k, 5)))
    /\ UNCHANGED <<argvars, program, locvars, outvars, bookvars>>

CallRecoveryHours ==
    /\ pc = "idle"
    /\ call = NoCall
    /\ \E sets \in RawSets, rep_range_type \in LoadTypes,
          muscle_profile \in Profiles, rir \in 0..MaxRir :
         /\ call' = [fn |-> "calculate_recovery_hours", sets |-> sets,
                     rep_range_type |-> rep_range_type,
                     muscle_profile |-> muscle_profile, rir |-> rir]
         /\ ret' = Returned(calculate_recovery_hours(sets, rep_range_type,
                                                     muscle_profile, rir).q)
    /\ UNCHANGED <<argvars, program, locvars, outvars, bookvars>>

CallWns ==
    /\ pc = "idle"
    /\ call = NoCall
    /\ \E f \in FnFreqs, g \in GrossInputs, r \in RecInputs :
         /\ call' = [fn |-> "calculate_wns", workouts_per_week |-> f,
                     gross_stimulus_per_workout |-> g, recovery_hours |-> r]
         /\ ret' = calculate_wns(f, g, r)
    /\ UNCHANGED <<argvars, program, locvars, outvars, bookvars>>

NextFn ==
    \/ CallEffectiveSets
    \/ CallGrossStimulus
    \/ CallRecoveryHours
    \/ CallWns

SpecFn == Init /\ [][NextFn]_vars

---------------------------------------------------------------------------
\* Properties.

\* The total of the muscle being checked, read from its exercises.
muscle_total == sum_sets(program[day], muscle_exercises(program[day], muscle))

\* C1: when the set-trimming loop of a muscle has stopped, the recovery
\* hours recomputed for the muscle's final total sets (with the x1.2 factor
\* of an easily damaged muscle) are at most the cycle hours, or the muscle
\* has one set in total left in the session.
C1_TrimStopsCompliantOrSingle ==
    (pc = "score" /\ pass = 1) =>
        \/ ~exceeds_cycle(initial_recovery(program[day], muscle, muscle_total))
        \/ muscle_total = 1

---------------------------------------------------------------------------
\* optimize_volume as a function of its arguments, with the muscle groups
\* of each session taken in the order of their first exercise.

RECURSIVE trim_loop(_, _, _, _, _)
trim_loop(exercises, m, total, rec, log) ==
    LET target    == last_pos(exercises, m)
        target_ex == exercises[target]
    IN  IF loop_continues(rec, total) /\ can_reduce(target_ex)
        THEN trim_loop([exercises EXCEPT ![target].Sets = @ - 1], m, total - 1,
                       recalc_recovery(exercises, m, total - 1),
                       Append(log, reduced_entry(rec, target_ex)))
        ELSE [exercises |-> tagged(exercises, m, total, rec), log |-> log]

check_muscle(exercises, m, log) ==
    LET total == sum_sets(exercises, muscle_exercises(exercises, m))
    IN  trim_loop(exercises, m, total, initial_recovery(exercises, m, total), log)

RECURSIVE first_seen(_, _)
first_seen(exercises, i) ==
    IF i > Len(exercises) THEN <<>>
    ELSE (IF \E j \in 1..(i - 1) : exercises[j].Muscle = exercises[i].Muscle
          THEN <<>> ELSE <<exercises[i].Muscle>>) \o first_seen(exercises, i + 1)

RECURSIVE check_muscles(_, _, _)
check_muscles(exercises, order, log) ==
    IF order = <<>> THEN [exercises |-> exercises, log |-> log]
    ELSE LET r == check_muscle(exercises, Head(order), log)
         IN  check_muscles(r.exercises, Tail(order), r.log)

in_listed_order(exercises) ==
    LET timed == IF short_on_time_global THEN time_constraint(exercises) ELSE exercises
        log1  == IF short_on_time_global THEN <<[msg |-> "Short on Time"]>> ELSE <<>>
        ready == [i \in 1..Len(timed) |-> strength_priority(timed[i])]
    IN  check_muscles(ready, first_seen(ready, 1), log1 \o strength_log(timed, 1))

\* C3: optimize_volume is deterministic: whatever order the muscle groups
\* of a session are processed in, the call returns one and the same result
\* for its arguments, the same fields of every exercise and the same
\* report_log entries in the same order.
C3_ResultIndependentOfOrder ==
    (pc = "done" /\ pass = 1) =>
        \A d \in 1..Len(draft) :
            /\ program[d] = in_listed_order(draft[d]).exercises
            /\ report_log[d] = in_listed_order(draft[d]).log

\* C4: optimize_volume does not mutate its input: after the call every
\* exercise record of the program passed in has the Sets it had before and
\* no added fields.
C4_InputNotMutated ==
    pc = "done" => program = draft

\* The weekly score calculate_wns gives when the gross stimulus is
\* multiplied by factor before the atrophy loss is subtracted.
wns_with_factor(f, g, factor) ==
    LET cycle == Norm(168, f)
        loss  == RMul(RMax(Q(0), RSub(cycle, Q(48))), <<134, 10000>>)
    IN  RMax(Q(0), RMul(RSub(RMul(g, factor), loss), Q(f)))

valid_wns_call ==
    /\ call.fn = "calculate_wns"
    /\ call.workouts_per_week >= 1

\* C5 as stated: with cycle hours below recovery_hours the gross stimulus
\* is multiplied by cycleHours / recoveryHours before the atrophy loss is
\* subtracted; otherwise by exactly 1.
C5_PenaltyIsCycleOverRecovery ==
    valid_wns_call =>
        LET cycle == Norm(168, call.workouts_per_week)
            rec   == call.recovery_hours
        IN  /\ ret.ok
            /\ ret.val = wns_with_factor(call.workouts_per_week,
                                         call.gross_stimulus_per_workout,
                                         IF RLt(cycle, rec) THEN RDiv(cycle, rec) ELSE Q(1))

\* C5 amended: with cycle hours below recovery_hours the gross stimulus is
\* multiplied by 1 - 0.5 * (recoveryHours - cycleHours) / recoveryHours,
\* that is (recoveryHours + cycleHours) / (2 * recoveryHours), before the
\* atrophy loss is subtracted; otherwise by exactly 1.
C5_PenaltyIsHalfDeficit ==
    valid_wns_call =>
        LET cycle == Norm(168, call.workouts_per_week)
            rec   == call.recovery_hours
        IN  /\ ret.ok
            /\ ret.val = wns_with_factor(call.workouts_per_week,
                                         call.gross_stimulus_per_workout,
                                         IF RLt(cycle, rec)
                                         THEN RDiv(RAdd(rec, cycle), RMul(Q(2), rec))
                                         ELSE Q(1))

\* A penalised call whose score is not floored to 0.
C5_Witness ==
    /\ valid_wns_call
    /\ RLt(Norm(168, call.workouts_per_week), call.recovery_hours)
    /\ ret.ok
    /\ ret.val[1] > 0

\* C6: a call of calculate_wns with a non-positive frequency, or of
\* calculate_recovery_hours with a negative number of sets, ends in an
\* error and returns no number.
C6_PreconditionViolationsFail ==
    /\ (call.fn = "calculate_wns" /\ call.workouts_per_week <= 0) => ~ret.ok
    /\ (call.fn = "calculate_recovery_hours" /\ call.sets < 0) => ~ret.ok

\* C7: calculate_wns returns a value >= 0, without a division by zero, for
\* every workouts_per_week >= 1, gross stimulus >= 0 and recovery_hours >= 0.
C7_WnsNonNegative ==
    (/\ valid_wns_call
     /\ call.gross_stimulus_per_workout[1] >= 0
     /\ call.recovery_hours[1] >= 0) =>
        /\ ret.ok
        /\ ret.val[1] >= 0

\* Frequency 1 and recovery_hours 0, where the atrophy loss outweighs the
\* gross stimulus and the score is floored.
C7_Witness ==
    /\ valid_wns_call
    /\ call.workouts_per_week = 1
    /\ call.recovery_hours = Q(0)
    /\ call.gross_stimulus_per_workout = Q(1)
    /\ ret = Returned(Q(0))

\* C8: calculate_effective_sets(sets, reps, rir) is
\* sets * min(reps, max(0, 5 - rir)) / 5: it is sets itself for rir = 0 and
\* reps >= 5, it is 0 for rir >= 5, and it never exceeds sets.
C8_EffectiveSets ==
    call.fn = "calculate_effective_sets" =>
        LET sets == call.raw_sets
            reps == call.reps
            rir  == call.rir
            stim == IF rir >= 5 THEN 0
                    ELSE IF reps <= 5 - rir THEN reps ELSE 5 - rir
        IN  /\ ret.ok
            /\ ret.val[1] * 5 = sets * stim * ret.val[2]
            /\ (rir = 0 /\ reps >= 5) => ret.val = Q(sets)
            /\ rir >= 5 => ret.val = Q(0)
            /\ RLe(ret.val, Q(sets))

\* A set to failure of at least 5 reps counts in full.
C8_Witness ==
    /\ call.fn = "calculate_effective_sets"
    /\ call.raw_sets = 3
    /\ call.reps >= 5
    /\ call.rir = 0
    /\ ret = Returned(Q(3))

\* C9: the set-trimming loop of a muscle makes at most (total sets of the
\* muscle when the loop is entered - 1) reductions, and for every frequency
\* >= 1 optimize_volume eventually returns.
C9_TrimTerminates ==
    /\ [](pc \in {"trim", "score"} => decrements <= entry_total - 1)
    /\ (pc # "idle" /\ freq >= 1) ~> (pc = "done")

\* A loop has made two or more reductions and stopped on the break of
\* line 358, with the muscle still above the cycle hours.
C9_Witness ==
    /\ pc = "score"
    /\ freq >= 1
    /\ decrements >= 2
    /\ decrements <= entry_total - 1
    /\ exceeds_cycle(req_recovery)

\* C10: at every step of optimize_volume every exercise's Sets is an
\* integer >= 1, and the running total_sets of the loop is the sum of the
\* Sets of the muscle's exercises.
C10_SetsPositiveAndTotalled ==
    /\ \A d \in 1..Len(program) : \A i \in 1..Len(program[d]) :
           program[d][i].Sets \in Nat \ {0}
    /\ pc \in {"trim", "score"} => total_sets = muscle_total

\* A loop has reduced a strength-priority muscle in a session whose other
\* exercise was drafted with one set and kept it through the halving.
C10_Witness ==
    /\ pc = "score"
    /\ short_on_time_global
    /\ decrements >= 1
    /\ total_sets = entry_total - decrements
    /\ \E i \in 1..Len(program[day]) :
           /\ is_strength(program[day][i])
           /\ program[day][i].Muscle = muscle
    /\ \E j \in 1..Len(program[day]) :
           /\ ~is_strength(program[day][j])
           /\ draft[day][j].Sets = 1
           /\ program[day][j].Sets = 1

\* C11: when short_on_time_global is true, every exercise of the program
\* that optimize_volume returns has Sets <= max(1, floor(drafted Sets / 2)),
\* the compound exercises of strength-priority muscles included.
C11_ShortOnTimeHalvesAll ==
    (pc = "done" /\ short_on_time_global) =>
        \A d \in 1..Len(program) : \A i \in 1..Len(program[d]) :
            program[d][i].Sets <=
                (IF draft[d][i].Sets \div 2 >= 1 THEN draft[d][i].Sets \div 2 ELSE 1)

=============================================================================
